---- MODULE Spec2Model ----
(***************************************************************************)
(* A model of examples/src/local_example/fibonacci_calculator.py: the      *)
(* three functions find_next_fibonacci, is_fibonacci (with its nested      *)
(* is_perfect_square) and the command-line driver main.                    *)
(*                                                                         *)
(* Python integers are unbounded, and the interesting behaviour of         *)
(* is_perfect_square lies beyond 2^53, where int(math.sqrt(x)) goes        *)
(* through an IEEE-754 double.  The integers of the program are therefore  *)
(* modelled as sign-and-magnitude numbers whose magnitude is a sequence of *)
(* limbs, least significant first, with no leading zero limb.              *)
(***************************************************************************)
EXTENDS Integers, Sequences, FiniteSets

VARIABLES
    entry,          \* what was invoked: "main", or a function called directly
    argv,           \* sys.argv: the program name, then the arguments
    arg,            \* the argument of a function called directly
    pc,             \* where the execution stands
    input_number,   \* main: the parsed argument
    n,              \* find_next_fibonacci: its parameter
    fib_prev,       \* find_next_fibonacci: locals
    fib_curr,
    next_fib,       \* what find_next_fibonacci returned
    is_input_fib,   \* what is_fibonacci or is_perfect_square returned
    exc,            \* the exception that ended the call, "" for none
    stdout,         \* the lines written to standard output
    stderr,         \* the lines written to the error stream
    status          \* the exit status of the process, -1 while it runs

vars == <<entry, argv, arg, pc, input_number, n, fib_prev, fib_curr, next_fib,
          is_input_fib, exc, stdout, stderr, status>>

----------------------------------------------------------------------------
(* Unbounded naturals: magnitudes.                                         *)

\* The radix of one limb of a magnitude.
Base == 2^10

Max(S) == CHOOSE m \in S : \A j \in S : j <= m

Limb(a, i) == IF i >= 1 /\ i <= Len(a) THEN a[i] ELSE 0

\* The canonical form: no zero limb at the top.
MagNorm(s) ==
    LET nz == {i \in 1..Len(s) : s[i] # 0}
    IN  IF nz = {} THEN <<>> ELSE SubSeq(s, 1, Max(nz))

RECURSIVE MagOfNat(_)
MagOfNat(k) == IF k = 0 THEN <<>> ELSE <<k % Base>> \o MagOfNat(k \div Base)

\* -1, 0 or 1 as a < b, a = b or a > b.
MagCmp(a, b) ==
    IF Len(a) # Len(b) THEN (IF Len(a) < Len(b) THEN -1 ELSE 1)
    ELSE LET d == {i \in 1..Len(a) : a[i] # b[i]}
         IN  IF d = {} THEN 0
             ELSE IF a[Max(d)] < b[Max(d)] THEN -1 ELSE 1

\* The limbs lo..hi of a + b with carry c coming in, and the carry going out.
RECURSIVE MagAddR(_, _, _, _, _)
MagAddR(a, b, lo, hi, c) ==
    IF lo = hi
    THEN LET t == Limb(a, lo) + Limb(b, lo) + c
         IN  [s |-> <<t % Base>>, c |-> t \div Base]
    ELSE LET mid == (lo + hi) \div 2
             l == MagAddR(a, b, lo, mid, c)
             h == MagAddR(a, b, mid + 1, hi, l.c)
         IN  [s |-> l.s \o h.s, c |-> h.c]

MagAdd(a, b) ==
    LET len == IF Len(a) > Len(b) THEN Len(a) ELSE Len(b)
        r == MagAddR(a, b, 1, len, 0)
    IN  IF len = 0 THEN <<>>
        ELSE IF r.c = 0 THEN r.s ELSE Append(r.s, r.c)

\* The limbs lo..hi of a - b with borrow c coming in, and the borrow going out.
RECURSIVE MagSubR(_, _, _, _, _)
MagSubR(a, b, lo, hi, c) ==
    IF lo = hi
    THEN LET t == Limb(a, lo) - Limb(b, lo) - c
         IN  IF t < 0 THEN [s |-> <<t + Base>>, c |-> 1]
                      ELSE [s |-> <<t>>, c |-> 0]
    ELSE LET mid == (lo + hi) \div 2
             l == MagSubR(a, b, lo, mid, c)
             h == MagSubR(a, b, mid + 1, hi, l.c)
         IN  [s |-> l.s \o h.s, c |-> h.c]

\* a - b for a >= b.
MagSub(a, b) == IF a = <<>> THEN <<>> ELSE MagNorm(MagSubR(a, b, 1, Len(a), 0).s)

\* The sum of a[i] * b[k - i + 1] over i in lo..hi: a column of the product.
RECURSIVE MagColSum(_, _, _, _, _)
MagColSum(a, b, k, lo, hi) ==
    IF lo > hi THEN 0
    ELSE IF lo = hi THEN a[lo] * Limb(b, k - lo + 1)
    ELSE MagColSum(a, b, k, lo, (lo + hi) \div 2)
         + MagColSum(a, b, k, ((lo + hi) \div 2) + 1, hi)

\* The limbs lo..hi of a * b with carry c coming in, and the carry going out.
RECURSIVE MagMulR(_, _, _, _, _)
MagMulR(a, b, lo, hi, c) ==
    IF lo = hi
    THEN LET t == MagColSum(a, b, lo, 1, IF lo < Len(a) THEN lo ELSE Len(a)) + c
         IN  [s |-> <<t % Base>>, c |-> t \div Base]
    ELSE LET mid == (lo + hi) \div 2
             l == MagMulR(a, b, lo, mid, c)
             h == MagMulR(a, b, mid + 1, hi, l.c)
         IN  [s |-> l.s \o h.s, c |-> h.c]

MagMul(a, b) ==
    IF a = <<>> \/ b = <<>> THEN <<>>
    ELSE LET r == MagMulR(a, b, 1, Len(a) + Len(b) - 1, 0)
         IN  MagNorm(r.s \o MagOfNat(r.c))

\* Long division of the limbs hi down to lo of a by a divisor d of one limb,
\* the remainder r of the limbs above hi coming in: the limbs of the
\* quotient, most significant first, and the remainder.
RECURSIVE MagDivR(_, _, _, _, _)
MagDivR(a, lo, hi, d, r) ==
    IF lo = hi
    THEN LET t == r * Base + a[lo]
         IN  [q |-> <<t \div d>>, r |-> t % d]
    ELSE LET mid == (lo + hi) \div 2
             h == MagDivR(a, mid + 1, hi, d, r)
             l == MagDivR(a, lo, mid, d, h.r)
         IN  [q |-> h.q \o l.q, r |-> l.r]

Reverse(s) == [i \in 1..Len(s) |-> s[Len(s) + 1 - i]]

MagDivSmall(a, d) ==
    IF a = <<>> THEN [q |-> <<>>, r |-> 0]
    ELSE LET x == MagDivR(a, 1, Len(a), d, 0)
         IN  [q |-> MagNorm(Reverse(x.q)), r |-> x.r]

MagPow2(e) ==
    [i \in 1..((e \div 10) + 1) |-> IF i = (e \div 10) + 1 THEN 2^(e % 10) ELSE 0]

MagShl(a, e) == MagMul(a, MagPow2(e))

MagShr(a, e) ==
    LET q == e \div 10
        r == e % 10
    IN  IF Len(a) <= q THEN <<>>
        ELSE MagNorm([i \in 1..(Len(a) - q) |->
                 (a[i + q] \div 2^r) + (Limb(a, i + q + 1) % 2^r) * 2^(10 - r)])

\* The number of binary digits of a: 0 for 0.
MagBitLen(a) ==
    IF a = <<>> THEN 0
    ELSE 10 * (Len(a) - 1)
         + (CHOOSE k \in 1..10 : 2^(k - 1) <= a[Len(a)] /\ a[Len(a)] < 2^k)

MagIsEven(a) == a = <<>> \/ a[1] % 2 = 0

\* floor(sqrt(y)) one binary digit at a time, from digit hi down to digit lo,
\* r being the digits above hi; the digits below an exact root are 0.
RECURSIVE MagISqrtR(_, _, _, _)
MagISqrtR(y, r, lo, hi) ==
    IF lo = hi
    THEN LET c == MagAdd(r, MagPow2(lo))
         IN  IF MagCmp(MagMul(c, c), y) <= 0 THEN c ELSE r
    ELSE LET h == MagISqrtR(y, r, ((lo + hi) \div 2) + 1, hi)
         IN  IF MagMul(h, h) = y THEN h
             ELSE MagISqrtR(y, h, lo, (lo + hi) \div 2)

MagISqrt(y) == MagISqrtR(y, <<>>, 0, (MagBitLen(y) + 1) \div 2)

----------------------------------------------------------------------------
(* Python int: sign and magnitude.                                         *)

MkInt(neg, mag) == [neg |-> neg /\ mag # <<>>, mag |-> mag]

IntOf(k) == IF k < 0 THEN MkInt(TRUE, MagOfNat(-k)) ELSE MkInt(FALSE, MagOfNat(k))

IntNeg(a) == MkInt(~a.neg, a.mag)

IntAdd(a, b) ==
    IF a.neg = b.neg THEN MkInt(a.neg, MagAdd(a.mag, b.mag))
    ELSE IF MagCmp(a.mag, b.mag) >= 0
         THEN MkInt(a.neg, MagSub(a.mag, b.mag))
         ELSE MkInt(b.neg, MagSub(b.mag, a.mag))

IntSub(a, b) == IntAdd(a, IntNeg(b))

IntMul(a, b) == MkInt(a.neg # b.neg, MagMul(a.mag, b.mag))

IntCmp(a, b) ==
    IF a.neg # b.neg THEN (IF a.neg THEN -1 ELSE 1)
    ELSE IF a.neg THEN MagCmp(b.mag, a.mag) ELSE MagCmp(a.mag, b.mag)

IntLt(a, b) == IntCmp(a, b) < 0

IntLe(a, b) == IntCmp(a, b) <= 0

Zero == IntOf(0)

----------------------------------------------------------------------------
(* float, math.sqrt and int(): IEEE-754 binary64.                          *)

\* The significand of a double has 53 binary digits (DBL_MANT_DIG).
MantissaBits == 53

\* Doubles are below 2^1024 (DBL_MAX_EXP).
MaxExponent == 1024

\* The outcome of a call: the value returned, or the exception raised.
Ret(v) == [exc |-> "", val |-> v]

Raise(e, v) == [exc |-> e, val |-> v]

\* Round to nearest, ties to even: whether the kept digits q go up by one, c
\* being the comparison (-1, 0, 1) of what is dropped with half a unit.
RoundUp(c, q) == c > 0 \/ (c = 0 /\ ~MagIsEven(q))

\* x >= 2^53 rounded to its 53 leading binary digits q, e digits dropped.
FloatRound(x, e, q) ==
    MagShl(IF RoundUp(MagCmp(MagSub(x, MagShl(q, e)), MagPow2(e - 1)), q)
           THEN MagAdd(q, <<1>>) ELSE q, e)

FloatRange(r) ==
    IF MagBitLen(r) > MaxExponent THEN Raise("OverflowError", <<>>) ELSE Ret(r)

\* The conversion of a non-negative int to float that math.sqrt(x) makes of
\* its argument: the nearest double, ties to the even significand; the
\* magnitude of the double (an integer), or OverflowError.
FloatOfMag(x) ==
    IF MagBitLen(x) <= MantissaBits THEN Ret(x)
    ELSE FloatRange(FloatRound(x, MagBitLen(x) - MantissaBits,
                               MagShr(x, MagBitLen(x) - MantissaBits)))

\* int(math.sqrt(y)) for a double y of integer value: the square root
\* correctly rounded to 53 significant digits (ties to even), truncated.
\* The root has b binary digits.  It is scaled by 2^k, as ys = y * 4^k, so
\* that one unit in the last place of the rounded root is 2^lg, an even
\* integer; q is the 53 leading digits of the root, lower = q * 2^lg.
SqrtScale(b) == IF b > MantissaBits THEN 0 ELSE MantissaBits + 1 - b

SqrtMid(lower, lg) == MagAdd(lower, MagPow2(lg - 1))

SqrtRound(ys, q, lg, lower, mid) ==
    IF RoundUp(MagCmp(ys, MagMul(mid, mid)), q)
    THEN MagAdd(lower, MagPow2(lg))
    ELSE lower

SqrtLower(ys, q, lg, lower) == SqrtRound(ys, q, lg, lower, SqrtMid(lower, lg))

SqrtLeading(ys, q, lg) == SqrtLower(ys, q, lg, MagShl(q, lg))

SqrtScaled(ys, lg) == SqrtLeading(ys, MagISqrt(MagShr(ys, 2 * lg)), lg)

SqrtDigits(y, b, k) == MagShr(SqrtScaled(MagShl(y, 2 * k), b + k - MantissaBits), k)

SqrtTrunc(y) ==
    IF y = <<>> THEN <<>>
    ELSE SqrtDigits(y, (MagBitLen(y) + 1) \div 2,
                    SqrtScale((MagBitLen(y) + 1) \div 2))

----------------------------------------------------------------------------
(* is_fibonacci and its nested is_perfect_square.                          *)

\* return root * root == x
VerifyRoot(x, root) == Ret(IntMul(root, root) = x)

\* root = int(math.sqrt(x)), f being float(x) or the exception it raised.
RootOf(x, f) ==
    IF f.exc # "" THEN Raise(f.exc, FALSE)
    ELSE VerifyRoot(x, MkInt(FALSE, SqrtTrunc(f.val)))

is_perfect_square(x) ==
    IF IntLt(x, Zero) THEN Ret(FALSE) ELSE RootOf(x, FloatOfMag(x.mag))

\* a or b: b is evaluated only when a returned False.
OrElse(first, sq) ==
    IF first.exc # "" \/ first.val THEN first
    ELSE is_perfect_square(IntSub(sq, IntOf(4)))

\* sq is 5 * n * n.
FibTest(sq) == OrElse(is_perfect_square(IntAdd(sq, IntOf(4))), sq)

is_fibonacci(m) == FibTest(IntMul(IntMul(IntOf(5), m), m))

----------------------------------------------------------------------------
(* str and int on text.  A str is a sequence of one-character strings; the *)
(* lines written are strings.                                              *)

Digits == <<"0", "1", "2", "3", "4", "5", "6", "7", "8", "9">>

IsDigit(c) == \E d \in 1..10 : Digits[d] = c

DigitVal(c) == (CHOOSE d \in 1..10 : Digits[d] = c) - 1

\* The last decimal digit of st.m moves to the front of st.s, d being the
\* quotient and remainder of st.m by 10.
StrStep(st, d) == [m |-> d.q, s |-> <<Digits[d.r + 1]>> \o st.s]

\* StrStep up to cnt times, until st.m is 0.
RECURSIVE MagStrR(_, _)
MagStrR(st, cnt) ==
    IF cnt <= 1
    THEN (IF st.m = <<>> THEN st ELSE StrStep(st, MagDivSmall(st.m, 10)))
    ELSE LET h == MagStrR(st, cnt \div 2)
         IN  IF h.m = <<>> THEN h ELSE MagStrR(h, cnt - (cnt \div 2))

\* The decimal digits of m > 0, which are no more than its binary digits.
MagStr(m) == MagStrR([m |-> m, s |-> <<>>], MagBitLen(m)).s

\* str(m): the decimal digits, a minus sign before those of a negative m.
IntStr(m) ==
    IF m.mag = <<>> THEN <<"0">>
    ELSE (IF m.neg THEN <<"-">> ELSE <<>>) \o MagStr(m.mag)

\* The text with the white space at both ends removed.
Strip(t) ==
    LET ink == {i \in 1..Len(t) : t[i] # " "}
    IN  IF ink = {} THEN <<>>
        ELSE SubSeq(t, CHOOSE i \in ink : \A j \in ink : i <= j, Max(ink))

\* The decimal number v that the digits lo..hi of t spell, underscores skipped,
\* and p = 10^(the number of those digits).
RECURSIVE MagOfDigits(_, _, _)
MagOfDigits(t, lo, hi) ==
    IF lo = hi
    THEN (IF t[lo] = "_" THEN [v |-> <<>>, p |-> <<1>>]
          ELSE [v |-> MagOfNat(DigitVal(t[lo])), p |-> <<10>>])
    ELSE LET l == MagOfDigits(t, lo, (lo + hi) \div 2)
             h == MagOfDigits(t, ((lo + hi) \div 2) + 1, hi)
         IN  [v |-> MagAdd(MagMul(l.v, h.p), h.v), p |-> MagMul(l.p, h.p)]

\* int(text) in base 10: white space around, an optional sign, then digits
\* that single underscores may separate; ValueError for anything else.
IntParse(t) ==
    LET s == Strip(t)
        signed == s # <<>> /\ s[1] \in {"+", "-"}
        body == IF signed THEN Tail(s) ELSE s
        ok == /\ body # <<>>
              /\ \A i \in 1..Len(body) : IsDigit(body[i]) \/ body[i] = "_"
              /\ IsDigit(body[1]) /\ IsDigit(body[Len(body)])
              /\ \A i \in 1..(Len(body) - 1) : ~(body[i] = "_" /\ body[i + 1] = "_")
    IN  IF ok THEN Ret(MkInt(signed /\ s[1] = "-", MagOfDigits(body, 1, Len(body)).v))
        ELSE Raise("ValueError", Zero)

RECURSIVE Join(_, _, _)
Join(t, lo, hi) ==
    IF lo > hi THEN ""
    ELSE IF lo = hi THEN t[lo]
    ELSE Join(t, lo, (lo + hi) \div 2) \o Join(t, ((lo + hi) \div 2) + 1, hi)

----------------------------------------------------------------------------
(* find_next_fibonacci, one step of its code at a time.                    *)

One == IntOf(1)

\* A variant of EarlyReturn without the shortcut for n < 1.
EarlyReturnNegativeOnly(m) ==
    IF IntLt(m, Zero) THEN [ret |-> TRUE, val |-> Zero]
    ELSE [ret |-> FALSE, val |-> Zero]

\* The two tests before the loop: whether the function returns at once, and
\* what it returns then.
EarlyReturn(m) ==
    IF IntLt(m, Zero) THEN [ret |-> TRUE, val |-> Zero]
    ELSE IF IntLt(m, One) THEN [ret |-> TRUE, val |-> One]
    ELSE [ret |-> FALSE, val |-> Zero]

\* A variant of LoopCond: while fib_curr < n.
LoopCondStrict(curr, m) == IntLt(curr, m)

\* while fib_curr <= n
LoopCond(curr, m) == IntLe(curr, m)

\* A variant of FibAdvance that exchanges the two locals without adding.
FibAdvanceSwap(prev, curr) == <<curr, prev>>

\* A variant of FibAdvance that adds fib_curr to itself.
FibAdvanceDouble(prev, curr) == <<curr, IntAdd(curr, curr)>>

\* fib_prev, fib_curr = fib_curr, fib_prev + fib_curr
FibAdvance(prev, curr) == <<curr, IntAdd(prev, curr)>>

\* The argument of the call, the place it is made from and the place it
\* returns to: main calls with input_number, a direct call with arg.
Actual == IF entry = "main" THEN input_number ELSE arg

CallPc == IF entry = "main" THEN "Compute" ELSE "Call"

ReturnPc == IF entry = "main" THEN "Membership" ELSE "Return"

FindEntry ==
    /\ pc = CallPc
    /\ entry \in {"main", "find_next_fibonacci"}
    /\ n' = Actual
    /\ IF EarlyReturn(Actual).ret
       THEN /\ next_fib' = EarlyReturn(Actual).val
            /\ pc' = ReturnPc
            /\ UNCHANGED <<fib_prev, fib_curr>>
       ELSE /\ fib_prev' = Zero
            /\ fib_curr' = One
            /\ pc' = "Loop"
            /\ UNCHANGED next_fib
    /\ UNCHANGED <<entry, argv, arg, input_number, is_input_fib, exc, stdout,
                   stderr, status>>

LoopStep ==
    /\ pc = "Loop"
    /\ LoopCond(fib_curr, n)
    /\ fib_prev' = FibAdvance(fib_prev, fib_curr)[1]
    /\ fib_curr' = FibAdvance(fib_prev, fib_curr)[2]
    /\ UNCHANGED <<entry, argv, arg, pc, input_number, n, next_fib,
                   is_input_fib, exc, stdout, stderr, status>>

LoopExit ==
    /\ pc = "Loop"
    /\ ~LoopCond(fib_curr, n)
    /\ next_fib' = fib_curr
    /\ pc' = ReturnPc
    /\ UNCHANGED <<entry, argv, arg, input_number, n, fib_prev, fib_curr,
                   is_input_fib, exc, stdout, stderr, status>>

----------------------------------------------------------------------------
(* main.                                                                   *)

UsageLine == "Usage: python3 fibonacci_calculator.py <number>"

NotIntegerLine(t) == "Error: '" \o Join(t, 1, Len(t)) \o "' is not a valid integer"

NegativeLine == "Error: Input must be a non-negative integer"

\* str(True), str(False)
BoolStr(b) == IF b THEN "True" ELSE "False"

Str(m) == Join(IntStr(m), 1, Len(IntStr(m)))

\* What the interpreter writes for an exception nothing catches.
Traceback(e) == <<"Traceback (most recent call last):", e>>

\* sys.exit(code) after the lines err were written to the error stream.
Exit(err, code) ==
    /\ stderr' = stderr \o err
    /\ status' = code
    /\ pc' = "Exit"

\* if len(sys.argv) != 2
CheckArgs ==
    /\ pc = "Start"
    /\ entry = "main"
    /\ IF Len(argv) # 2
       THEN Exit(<<UsageLine>>, 1)
       ELSE pc' = "ParseArgs" /\ UNCHANGED <<stderr, status>>
    /\ UNCHANGED <<entry, argv, arg, input_number, n, fib_prev, fib_curr,
                   next_fib, is_input_fib, exc, stdout>>

\* input_number = int(sys.argv[1]), except ValueError
ParseArgs ==
    /\ pc = "ParseArgs"
    /\ IF IntParse(argv[2]).exc # ""
       THEN Exit(<<NotIntegerLine(argv[2])>>, 1) /\ UNCHANGED input_number
       ELSE /\ input_number' = IntParse(argv[2]).val
            /\ pc' = "Validate"
            /\ UNCHANGED <<stderr, status>>
    /\ UNCHANGED <<entry, argv, arg, n, fib_prev, fib_curr, next_fib,
                   is_input_fib, exc, stdout>>

\* A variant of IsNegative that lets every input through.
IsNegativeNever(m) == FALSE

\* if input_number < 0
IsNegative(m) == IntLt(m, Zero)

Validate ==
    /\ pc = "Validate"
    /\ IF IsNegative(input_number)
       THEN Exit(<<NegativeLine>>, 1)
       ELSE pc' = "Compute" /\ UNCHANGED <<stderr, status>>
    /\ UNCHANGED <<entry, argv, arg, input_number, n, fib_prev, fib_curr,
                   next_fib, is_input_fib, exc, stdout>>

\* is_input_fib = is_fibonacci(input_number); an exception it raises is
\* caught nowhere and ends the process with status 1.
Membership ==
    /\ pc = "Membership"
    /\ LET r == is_fibonacci(input_number)
       IN  IF r.exc # ""
           THEN /\ Exit(Traceback(r.exc), 1)
                /\ exc' = r.exc
                /\ UNCHANGED is_input_fib
           ELSE /\ is_input_fib' = r.val
                /\ pc' = "Report"
                /\ UNCHANGED <<exc, stderr, status>>
    /\ UNCHANGED <<entry, argv, arg, input_number, n, fib_prev, fib_curr,
                   next_fib, stdout>>

\* The three lines main prints.
ReportLines(m, isfib, nextfib) ==
    << "Input number: " \o Str(m),
       "Is Fibonacci: " \o BoolStr(isfib),
       "Next Fibonacci: " \o Str(nextfib) >>

\* The three prints, return 0 and sys.exit(main()).
Report ==
    /\ pc = "Report"
    /\ stdout' = stdout \o ReportLines(input_number, is_input_fib, next_fib)
    /\ status' = 0
    /\ pc' = "Exit"
    /\ UNCHANGED <<entry, argv, arg, input_number, n, fib_prev, fib_curr,
                   next_fib, is_input_fib, exc, stderr>>

----------------------------------------------------------------------------
(* Direct calls of is_fibonacci and of is_perfect_square.                  *)

CallIsFibonacci ==
    /\ pc = "Call"
    /\ entry = "is_fibonacci"
    /\ n' = arg
    /\ LET r == is_fibonacci(arg)
       IN  is_input_fib' = r.val /\ exc' = r.exc
    /\ pc' = "Return"
    /\ UNCHANGED <<entry, argv, arg, input_number, fib_prev, fib_curr,
                   next_fib, stdout, stderr, status>>

CallIsPerfectSquare ==
    /\ pc = "Call"
    /\ entry = "is_perfect_square"
    /\ n' = arg
    /\ LET r == is_perfect_square(arg)
       IN  is_input_fib' = r.val /\ exc' = r.exc
    /\ pc' = "Return"
    /\ UNCHANGED <<entry, argv, arg, input_number, fib_prev, fib_curr,
                   next_fib, stdout, stderr, status>>

----------------------------------------------------------------------------
(* The inputs, the initial states and the specifications.                  *)

\* Arguments are all texts of at most MaxTextLen characters of Alphabet, the
\* decimal numerals up to MaxInput, and the texts named below.
MaxTextLen == 2

MaxInput == 40

Alphabet == {"0", "1", "7", "-", "+", "_", " ", "a"}

ShortTexts == UNION {[1..k -> Alphabet] : k \in 0..MaxTextLen}

Numerals == {IntStr(IntOf(k)) : k \in 0..MaxInput}

\* F(77), the first Fibonacci number whose 5*n*n - 4 has a root beyond 2^53.
Fib77Text ==
    <<"5", "5", "2", "7", "9", "3", "9", "7", "0", "0", "8", "8", "4", "7", "5", "7">>

\* 10^154: 5*n*n + 4 is beyond the largest double.
HugeText == <<"1">> \o [i \in 1..154 |-> "0"]

NamedTexts ==
    { <<"1", "2", "3", "4", "5">>, <<"1", "3">>, <<"a", "b", "c">>, <<"-", "5">>,
      <<" ", "1", "_", "0", "0", "0", " ">>, <<"1", "_", "_", "0">>,
      Fib77Text, HugeText }

Texts == ShortTexts \cup Numerals \cup NamedTexts

ProgName == <<"fibonacci_calculator.py">>

ArgvInputs ==
    {<<ProgName>>}
    \cup {<<ProgName, t>> : t \in Texts}
    \cup {<<ProgName, t, u>> : t, u \in {<<"1">>, <<"a">>}}

Square(m) == MkInt(FALSE, MagMul(m, m))

Fib77 == IntParse(Fib77Text).val

\* 5 * F(77)^2 - 4, the square of 12360848946698171: what is_fibonacci(F(77))
\* passes to is_perfect_square.
FiveFib77SqMinus4 == IntSub(IntMul(IntOf(5), Square(Fib77.mag)), IntOf(4))

Huge == IntParse(HugeText).val

\* The integers a function is called with directly: those of magnitude up to
\* MaxInput, F(77) and 5*F(77)^2 - 4, (2^53 + 1)^2 and its neighbour, 10^154
\* and its negative.
IntInputs ==
    {IntOf(k) : k \in -MaxInput..MaxInput}
    \cup { Fib77,
           FiveFib77SqMinus4,
           Square(MagAdd(MagPow2(MantissaBits), <<1>>)),
           IntAdd(Square(MagAdd(MagPow2(MantissaBits), <<1>>)), One),
           Huge,
           IntNeg(Huge) }

Functions == {"find_next_fibonacci", "is_fibonacci", "is_perfect_square"}

Locals ==
    /\ input_number = Zero
    /\ n = Zero
    /\ fib_prev = Zero
    /\ fib_curr = Zero
    /\ next_fib = Zero
    /\ is_input_fib = FALSE
    /\ exc = ""
    /\ stdout = <<>>
    /\ stderr = <<>>
    /\ status = -1

\* The process started with some command line.
Init ==
    /\ entry = "main"
    /\ argv \in ArgvInputs
    /\ arg = Zero
    /\ pc = "Start"
    /\ Locals

\* One of the functions about to be called with some integer.
InitCall ==
    /\ entry \in Functions
    /\ arg \in IntInputs
    /\ argv = <<>>
    /\ pc = "Call"
    /\ Locals

Next ==
    \/ CheckArgs
    \/ ParseArgs
    \/ Validate
    \/ FindEntry
    \/ LoopStep
    \/ LoopExit
    \/ Membership
    \/ Report

NextCall ==
    \/ FindEntry
    \/ LoopStep
    \/ LoopExit
    \/ CallIsFibonacci
    \/ CallIsPerfectSquare

Spec == Init /\ [][Next]_vars

\* The steps that only test and branch, and the steps that compute with
\* integers of arbitrary size or with text.
Control == CheckArgs \/ Validate \/ FindEntry \/ LoopExit

Heavy == ParseArgs \/ LoopStep \/ Membership \/ Report

\* ENABLED <<Heavy>>_vars, from the guards of its actions.
HeavyEnabled ==
    \/ pc \in {"ParseArgs", "Membership", "Report"}
    \/ pc = "Loop" /\ LoopCond(fib_curr, n)

\* WF_vars(Heavy), with its ENABLED written out.
HeavyFair == []<>(~HeavyEnabled) \/ []<><<Heavy>>_vars

\* The interpreter runs the one thread of the program for as long as it has a
\* statement to execute: no step that can be taken is put off for ever.
FairSpec == Spec /\ WF_vars(Control) /\ HeavyFair

FnSpec == InitCall /\ [][NextCall]_vars

----------------------------------------------------------------------------
(* Reference definitions: the Fibonacci sequence and exact squares,        *)
(* independent of the functions above.                                     *)

\* The sequence is tabulated up to F(MaxFibIndex), beyond every input.
MaxFibIndex == 745

\* The terms lo..hi of the sequence, p being <<F(lo), F(lo + 1)>>, and the
\* pair after them.
RECURSIVE FibRunR(_, _, _)
FibRunR(p, lo, hi) ==
    IF lo = hi
    THEN [s |-> <<p[1]>>, p |-> <<p[2], IntAdd(p[1], p[2])>>]
    ELSE LET l == FibRunR(p, lo, (lo + hi) \div 2)
             h == FibRunR(l.p, ((lo + hi) \div 2) + 1, hi)
         IN  [s |-> l.s \o h.s, p |-> h.p]

\* F(0), F(1), ..., F(MaxFibIndex): 0, 1, 1, 2, 3, 5, 8, ...
FibTable == FibRunR(<<Zero, One>>, 0, MaxFibIndex).s

IsFibValue(x) == \E i \in 1..Len(FibTable) : FibTable[i] = x

\* Some r >= 0 has r * r = x.
IsSquare(x) == ~x.neg /\ MagMul(MagISqrt(x.mag), MagISqrt(x.mag)) = x.mag

NonNegative(x) == ~IntLt(x, Zero)

Returned(f) == entry = f /\ pc = "Return"

----------------------------------------------------------------------------
(* The claims.                                                             *)

\* C1: for every n >= 0, find_next_fibonacci(n) returns a value r of the
\* Fibonacci sequence with r > n, and no value f of the sequence has
\* n < f < r.
C1_NextIsSmallestGreater ==
    (Returned("find_next_fibonacci") /\ NonNegative(arg)) =>
        /\ IsFibValue(next_fib)
        /\ IntLt(arg, next_fib)
        /\ \A i \in 1..Len(FibTable) :
              ~(IntLt(arg, FibTable[i]) /\ IntLt(FibTable[i], next_fib))

\* find_next_fibonacci(13) has returned 21.
C1_Witness ==
    Returned("find_next_fibonacci") /\ arg = IntOf(13) /\ next_fib = IntOf(21)

\* C2: for every n >= 0, is_fibonacci(n) returns true if and only if n is a
\* value of the Fibonacci sequence.
C2_MembershipIsExact ==
    (Returned("is_fibonacci") /\ NonNegative(arg) /\ exc = "") =>
        (is_input_fib <=> IsFibValue(arg))

\* is_fibonacci(F(77)) has returned False.
C2_Witness ==
    /\ Returned("is_fibonacci")
    /\ arg = Fib77
    /\ IsFibValue(arg)
    /\ exc = ""
    /\ ~is_input_fib

\* C3: for every integer x, is_perfect_square(x) returns true if and only if
\* some r >= 0 has r * r = x, and false for every negative x: the root taken
\* from the floating-point square root never causes a wrong answer.
C3_SquareTestIsExact ==
    (Returned("is_perfect_square") /\ exc = "") =>
        /\ is_input_fib <=> IsSquare(arg)
        /\ IntLt(arg, Zero) => ~is_input_fib

\* is_perfect_square(5 * F(77)^2 - 4) has returned False.
C3_Witness ==
    /\ Returned("is_perfect_square")
    /\ arg = FiveFib77SqMinus4
    /\ IsSquare(arg)
    /\ exc = ""
    /\ ~is_input_fib

\* The command line has exactly one argument, which parses as an integer
\* n >= 0.
ValidInvocation ==
    /\ Len(argv) = 2
    /\ IntParse(argv[2]).exc = ""
    /\ NonNegative(IntParse(argv[2]).val)

\* C4: main invoked with exactly one argument that parses as an integer
\* n >= 0 writes exactly three lines to standard output ("Input number: n",
\* "Is Fibonacci: ..." with what is_fibonacci returned, "Next Fibonacci: ..."
\* with what find_next_fibonacci returned), nothing to the error stream, and
\* the process exits with status 0.
C4_ValidRunReports ==
    (pc = "Exit" /\ ValidInvocation) =>
        /\ Len(stdout) = 3
        /\ stdout[1] = "Input number: " \o Str(IntParse(argv[2]).val)
        /\ stdout[2] = "Is Fibonacci: " \o BoolStr(is_input_fib)
        /\ stdout[3] = "Next Fibonacci: " \o Str(next_fib)
        /\ stderr = <<>>
        /\ status = 0

\* main 10^154 has ended with status 1, a traceback on the error stream and
\* nothing on standard output.
C4_Witness ==
    /\ pc = "Exit"
    /\ argv = <<ProgName, HugeText>>
    /\ stdout = <<>>
    /\ stderr = Traceback("OverflowError")
    /\ status = 1

\* The message of an invalid invocation.
OwnMessage ==
    IF Len(argv) # 2 THEN UsageLine
    ELSE IF IntParse(argv[2]).exc # "" THEN NotIntegerLine(argv[2])
    ELSE NegativeLine

\* C5: each of the three invalid invocations (argument count other than one,
\* argument that is no integer, negative argument) ends the process with
\* status 1, its own message on the error stream and nothing on standard
\* output; the exit status is 1 exactly in these three cases and 0 otherwise.
C5_StatusOneExactlyWhenInvalid ==
    pc = "Exit" =>
        /\ ~ValidInvocation => (stdout = <<>> /\ stderr = <<OwnMessage>>)
        /\ status = 1 <=> ~ValidInvocation
        /\ status = 0 <=> ValidInvocation

\* A valid invocation has ended with status 1.
C5_Witness == pc = "Exit" /\ ValidInvocation /\ status = 1 /\ exc # ""

\* C6: find_next_fibonacci returns 0 for every negative n and 1 for n = 0,
\* in both cases without entering the loop.
C6_EarlyReturns ==
    (entry = "find_next_fibonacci" /\ IntLt(arg, One)) =>
        /\ pc # "Loop"
        /\ fib_curr = Zero
        /\ pc = "Return" => next_fib = (IF IntLt(arg, Zero) THEN Zero ELSE One)

\* find_next_fibonacci(-5) has returned 0.
C6_Witness ==
    Returned("find_next_fibonacci") /\ arg = IntOf(-5) /\ next_fib = Zero

\* C7: the loop of find_next_fibonacci terminates, fib_curr exceeding n in
\* the end, fib_curr growing on every iteration once fib_prev is positive;
\* every run of the driver reaches Exit.
C7_Terminates ==
    /\ [][(pc = "Loop" /\ pc' = "Loop" /\ fib_prev # Zero)
             => IntLt(fib_curr, fib_curr')]_vars
    /\ (pc = "Loop") ~> (pc # "Loop" /\ IntLt(n, fib_curr))
    /\ <>(pc = "Exit")

\* The driver is at Exit after a loop that ended with fib_curr > n >= 1.
C7_Witness ==
    /\ pc = "Exit"
    /\ IntLe(One, n)
    /\ IntLt(n, fib_curr)
    /\ next_fib = fib_curr
    /\ status = 0

\* C8: for every integer n, is_fibonacci(n) returns a boolean without
\* raising.
C8_NeverRaises == Returned("is_fibonacci") => exc = ""

\* is_fibonacci(10^154) has raised OverflowError.
C8_Witness ==
    /\ Returned("is_fibonacci")
    /\ arg = Huge
    /\ exc = "OverflowError"

\* The place of a point of main in the order Start, ParseArgs, Validate,
\* Compute, Report, Exit; Compute is the two calls.
PhaseRank(p) ==
    CASE p = "Start" -> 0
      [] p = "ParseArgs" -> 1
      [] p = "Validate" -> 2
      [] p \in {"Compute", "Loop", "Membership"} -> 3
      [] p = "Report" -> 4
      [] p = "Exit" -> 5

\* One step of the driver keeps the order of the phases.
PhaseStep ==
    /\ \/ PhaseRank(pc') = PhaseRank(pc) + 1
       \/ pc' = "Exit"
       \/ PhaseRank(pc) = 3 /\ PhaseRank(pc') = 3
    /\ PhaseRank(pc') \in 1..4 => Len(argv') = 2
    /\ PhaseRank(pc') \in 2..4 =>
          /\ IntParse(argv'[2]).exc = ""
          /\ input_number' = IntParse(argv'[2]).val
    /\ PhaseRank(pc') \in 3..4 => NonNegative(input_number')
    /\ PhaseRank(pc) \in 3..4 => input_number' = input_number

\* C9: the driver passes through its phases only in the order Start,
\* ParseArgs, Validate, Compute, Report, Exit, never going back; parsing
\* follows the argument count check, the negativity check follows parsing,
\* Compute and Report are reached only with an input validated as a
\* non-negative integer, whose value then stays unchanged.
C9_PhaseOrder == [][PhaseStep]_vars

\* The driver is at Report with the validated input 13.
C9_Witness ==
    /\ pc = "Report"
    /\ argv = <<ProgName, <<"1", "3">>>>
    /\ input_number = IntOf(13)
    /\ next_fib = IntOf(21)

\* (fib_prev, fib_curr) is <<F(k), F(k + 1)>> for some k, and fib_prev <= n.
LoopInv ==
    /\ \E k \in 1..(Len(FibTable) - 1) :
          fib_prev = FibTable[k] /\ fib_curr = FibTable[k + 1]
    /\ IntLe(fib_prev, n)

\* One step of find_next_fibonacci around its loop.
LoopStepOk ==
    /\ (pc # "Loop" /\ pc' = "Loop") => (fib_prev' = Zero /\ fib_curr' = One)
    /\ (pc' = "Loop" /\ IntLe(One, n')) => LoopInv'
    /\ (pc = "Loop" /\ pc' = "Loop") =>
          /\ IntLe(fib_curr, n)
          /\ fib_prev' = fib_curr
          /\ fib_curr' = IntAdd(fib_prev, fib_curr)
    /\ (pc = "Loop" /\ pc' # "Loop") =>
          /\ IntLt(n, fib_curr)
          /\ next_fib' = fib_curr

\* C10: in find_next_fibonacci with n >= 1, at every evaluation of the loop
\* condition (fib_prev, fib_curr) is a pair of consecutive terms of the
\* Fibonacci sequence, starting from (0, 1), with fib_prev <= n; the loop
\* advances by (prev, curr) <- (curr, prev + curr) and stops at the first
\* fib_curr > n, which is the value returned.
C10_LoopInvariant == [][LoopStepOk]_vars

\* The loop condition is evaluated for the last time for n = 13, at (13, 21).
C10_Witness ==
    /\ entry = "find_next_fibonacci"
    /\ pc = "Loop"
    /\ n = IntOf(13)
    /\ fib_prev = IntOf(13)
    /\ fib_curr = IntOf(21)

====
